---- MODULE Spec2Model ----
(***************************************************************************)
(* Release boosting: the publish-time calculator and the poll cycle of     *)
(* GeyserMonitor (src/Geyser_Monitor.py) and BoostingMonitor               *)
(* (src/boosting_monitor/Boosting_Monitor.py), and the episodes table of   *)
(* the Telegram bot (src/telegram_bot/telegram_bot_nodesignal.py).         *)
(*                                                                         *)
(* Units.  start_time and earliest_time are configured as decimal hours.   *)
(* The model keeps them in hundredths of an hour (22.0 is 2200, 10.5 is    *)
(* 1050), within -24.00 .. 47.99.  A datetime is a record of its UTC       *)
(* calendar day number, hour, minute, second and microsecond.              *)
(***************************************************************************)
EXTENDS Integers, Sequences, FiniteSets, TLC

VARIABLES
    config,             \* [calculation] parameters of the monitor
    publish_date,       \* publish_date string handed to calculate_adjusted_time
    variant,            \* "geyser" (scrape) or "boosting" (wallet)
    donation_satoshis,  \* amount handed to calculate_adjusted_time
    new_time,           \* its result
    episode,            \* the planned episode as the episode API holds it
    first_publish_date, \* the publish_date the API held at start-up
    previous_goals,     \* previous.html, as extract_goals_info reads it
    previous_js_goals,  \* previous_js.html, likewise
    tasks,              \* process_change tasks created and not yet run
    pc,                 \* position of monitor_loop
    check_count,        \* check_count of monitor_loop
    use_javascript,     \* self.use_javascript
    js_failures,        \* js_failures of monitor_loop
    now,                \* wall clock, seconds
    current_goals,      \* argument of the latest process_change
    calculated,         \* the latest handler run called calculate_adjusted_time
    request,            \* reschedule POST of the latest handler run
    notification,       \* Telegram notification of the latest handler run
    db,                 \* episode row of the bot database: donations, publish_date
    use_telegram,       \* self.use_telegram
    wallet_balance,     \* balance the latest check_for_changes fetched
    response,           \* outcome of the reschedule POST of the latest handler run
    donation_update,    \* donation update of the latest handler run
    post_attempts,      \* reschedule POSTs attempted for the donation total last seen
    current_file,       \* current.html, as extract_goals_info reads it
    current_js_file,    \* current_js.html, likewise
    extraction,         \* a text on its way through the extractor functions
    fetch,              \* the fetch call of monitor_loop, attempt by attempt
    pools,              \* PostgreSQL connection pools created and not closed
    bot                 \* the Telegram bot: episodes table and writer threads

calc_vars == <<config, publish_date, variant, donation_satoshis, new_time>>

cycle_vars == <<episode, first_publish_date, previous_goals, previous_js_goals, tasks,
                pc, check_count, use_javascript, js_failures, now, current_goals,
                calculated, request, notification, db, use_telegram,
                wallet_balance, response, donation_update, post_attempts,
                current_file, current_js_file, fetch, pools>>

vars == <<config, publish_date, variant, donation_satoshis, new_time,
          episode, first_publish_date, previous_goals, previous_js_goals, tasks,
          pc, check_count, use_javascript, js_failures, now, current_goals,
          calculated, request, notification, db, use_telegram,
          wallet_balance, response, donation_update, post_attempts,
          current_file, current_js_file, extraction, fetch, pools, bot>>

(***************************************************************************)
(* Bounds of the model.                                                    *)
(***************************************************************************)
MaxAmount == 130
MaxDay == 2
MaxChecks == 3
MaxLen == 3
MaxRetries == 3
MaxRequests == 3

(***************************************************************************)
(* Configuration ([calculation] section).  The first entry holds the       *)
(* fallback values of the source.                                          *)
(***************************************************************************)
Cfg(rate, maxred, earliest, start) ==
    [satoshis_per_minute |-> rate, max_reduction |-> maxred,
     earliest_time |-> earliest, start_time |-> start]

Configs ==
    { Cfg(21, 12, 1000, 2200),   \* the fallbacks: 21 sat/min, 12 h, 10.0, 22.0
      Cfg(1, 1, 1000, 2200),
      Cfg(2, 1, 1000, 2200),
      Cfg(1, 0, 1000, 2200),
      Cfg(1, 2, 2000, 2050),     \* 20.5 -> 20.0: the floor binds after 30 minutes
      Cfg(1, 2, 0, 100),         \* 01:00 with floor 00:00
      Cfg(1, 2, -200, 100),      \* floor on the previous day
      Cfg(1, 1, 2375, 2450),     \* start on the next day
      Cfg(1, 2, 2120, 2220),     \* 22.2 -> 21.2: hours that are no binary fractions
      Cfg(1, 1, 820, 845),       \* 8.45 -> 8.2
      Cfg(1, 1, 2200, 1000) }    \* earliest_time above start_time

SampleAmounts == {15120, 15141, 21000}

Amounts == (-2 .. MaxAmount) \cup SampleAmounts

(***************************************************************************)
(* The publish_date string of an episode: an ISO timestamp with a "Z"      *)
(* suffix, with a UTC offset (minutes) or naive, or an empty or            *)
(* unparseable string.                                                     *)
(***************************************************************************)
IsoString(d, h, mi, s, us, suffix, off) ==
    [kind |-> "iso", day |-> d, hour |-> h, minute |-> mi, second |-> s,
     microsecond |-> us, suffix |-> suffix, utcoffset |-> off]

EmptyString == [kind |-> "empty", day |-> 0, hour |-> 0, minute |-> 0, second |-> 0,
                microsecond |-> 0, suffix |-> "naive", utcoffset |-> 0]

Malformed == [kind |-> "malformed", day |-> 0, hour |-> 0, minute |-> 0, second |-> 0,
              microsecond |-> 0, suffix |-> "naive", utcoffset |-> 0]

ClockTimes ==
    { <<22, 0, 0, 0>>, <<22, 0, 30, 0>>, <<22, 0, 0, 500000>>, <<21, 30, 0, 0>>,
      <<10, 0, 0, 0>>, <<1, 0, 0, 0>>, <<0, 30, 0, 0>>, <<8, 12, 0, 0>> }

Suffixes == { <<"Z", 0>>, <<"naive", 0>>, <<"offset", 0>>, <<"offset", 120>> }

PublishDates ==
    { IsoString(d, t[1], t[2], t[3], t[4], x[1], x[2]) :
        d \in 1 .. MaxDay, t \in ClockTimes, x \in Suffixes }
    \cup { EmptyString, Malformed }

(***************************************************************************)
(* datetime.fromisoformat, .replace(tzinfo=utc) and .astimezone(utc):      *)
(* a "Z" or naive string is read as UTC, a string with an offset is        *)
(* converted to UTC, which may move it to another calendar day.            *)
(***************************************************************************)
ParseUTC(s) ==
    LET local == s.hour * 60 + s.minute
        utc   == IF s.suffix = "offset" THEN local - s.utcoffset ELSE local
    IN  [day |-> s.day + (utc \div 1440), hour |-> (utc % 1440) \div 60,
         minute |-> utc % 60, second |-> s.second, microsecond |-> s.microsecond]

(***************************************************************************)
(* datetime.isoformat() of a UTC datetime, as the returned string; the     *)
(* empty string is the 'no change' result.                                 *)
(***************************************************************************)
IsoFormat(dt) ==
    [empty |-> FALSE, day |-> dt.day, hour |-> dt.hour, minute |-> dt.minute,
     second |-> dt.second, microsecond |-> dt.microsecond]

NoChange ==
    [empty |-> TRUE, day |-> 0, hour |-> 0, minute |-> 0, second |-> 0, microsecond |-> 0]

(***************************************************************************)
(* round(x, 2) of a difference of centihours and a number of minutes       *)
(* divided by 60: 100 * (m / 60) is 5m/3, whose fraction is 0, 1/3 or 2/3, *)
(* so the nearest hundredth is never a tie.                                *)
(***************************************************************************)
RoundedHours(m) == (5 * m + 1) \div 3

(***************************************************************************)
(* int((new_time_hours - hours) * 60) in IEEE-754 double arithmetic, for a *)
(* new_time_hours of hours + frac/100.  The product 0.6 * frac is a whole  *)
(* number when frac is a multiple of 5; the double nearest to the decimal  *)
(* may then lie below it, and int() yields one minute less.  LossyFrac is  *)
(* the set of such fractions; it depends on the binade of the hour and on  *)
(* the branch of the day rollover that produced the value ("neg":          *)
(* new_time_hours + 24, "over": new_time_hours % 24, "norm": neither).     *)
(***************************************************************************)
LossyFrac(branch, hours) ==
    CASE branch = "neg" ->
           IF hours \in 8 .. 15 THEN {10, 20, 35, 45, 60, 70, 85, 95}
                                ELSE {15, 20, 40, 45, 65, 70, 90, 95}
      [] branch = "over" ->
           IF hours \in 0 .. 7 THEN {15, 20, 40, 45, 65, 70, 90, 95}
                               ELSE {5, 15, 30, 40, 55, 65, 80, 90}
      [] OTHER ->
           IF hours = 0 THEN {}
           ELSE IF hours = 1 THEN {15, 20, 40, 45, 65, 90}
           ELSE IF hours \in 2 .. 3 THEN {5, 15, 30, 40, 55, 65, 80, 90}
           ELSE IF hours \in 4 .. 7 THEN {5, 10, 30, 35, 55, 60, 80, 85}
           ELSE IF hours \in 8 .. 15 THEN {10, 20, 35, 45, 60, 70, 85, 95}
           ELSE {15, 20, 40, 45, 65, 70, 90, 95}

FloatMinutes(branch, hours, frac) ==
    ((3 * frac) \div 5) - (IF frac \in LossyFrac(branch, hours) THEN 1 ELSE 0)

(***************************************************************************)
(* int(t * 60) for a configured time t of c/100 hours, in double           *)
(* arithmetic: the product truncated towards zero; for the values of       *)
(* Int60Lossy the double product lies just inside the whole number and one *)
(* minute is lost.                                                         *)
(***************************************************************************)
Int60Lossy ==
    {205, 410, 820, 845, 1615, 1640, 1665, 1690,
     -205, -410, -820, -845, -1615, -1640, -1665, -1690,
     3205, 3230, 3255, 3280, 3305, 3330, 3355, 3380, 3405}

IntTimes60(c) ==
    LET a == IF c < 0 THEN -c ELSE c
        t == ((3 * a) \div 5) - (IF c \in Int60Lossy THEN 1 ELSE 0)
    IN  IF c < 0 THEN -t ELSE t

(***************************************************************************)
(* original_datetime.replace(hour, minute, second=0, microsecond=0)        *)
(*   + timedelta(days=adjusted_days)                                       *)
(***************************************************************************)
\* Mutant: replace() without second=0, microsecond=0.
Compose_KeepSeconds(original_datetime, hours, minutes, adjusted_days) ==
    [day |-> original_datetime.day + adjusted_days, hour |-> hours,
     minute |-> minutes, second |-> original_datetime.second,
     microsecond |-> original_datetime.microsecond]

Compose(original_datetime, hours, minutes, adjusted_days) ==
    [day |-> original_datetime.day + adjusted_days, hour |-> hours,
     minute |-> minutes, second |-> 0, microsecond |-> 0]

(***************************************************************************)
(* The return statement of both calculators: the new timestamp unless its  *)
(* isoformat() is that of the original.                                    *)
(***************************************************************************)
ReturnIfChanged(new_publish_date, original_datetime) ==
    IF IsoFormat(new_publish_date) # IsoFormat(original_datetime)
    THEN IsoFormat(new_publish_date)
    ELSE NoChange

(***************************************************************************)
(* GeyserMonitor.calculate_adjusted_time, step by step.  Hours are         *)
(* centihours.                                                             *)
(***************************************************************************)
GeyserMinutes(donation, cfg) == donation \div cfg.satoshis_per_minute

\* Mutant: the maximum reduction is not applied.
GeyserNewTimeHours_NoClamp(donation, cfg) ==
    cfg.start_time - RoundedHours(GeyserMinutes(donation, cfg))

\* new_time_hours after round(start_time - hours_to_subtract, 2)
GeyserNewTimeHours(donation, cfg) ==
    LET minutes_to_subtract == GeyserMinutes(donation, cfg)
        max_minutes == cfg.max_reduction * 60
    IN  IF minutes_to_subtract > max_minutes
        THEN cfg.start_time - 100 * cfg.max_reduction
        ELSE cfg.start_time - RoundedHours(minutes_to_subtract)

\* Mutant: the floor at earliest_time is not applied.
GeyserClamped_NoFloor(donation, cfg) == GeyserNewTimeHours(donation, cfg)

\* ... after the floor at earliest_time
GeyserClamped(donation, cfg) ==
    LET new_time_hours == GeyserNewTimeHours(donation, cfg)
    IN  IF new_time_hours < cfg.earliest_time THEN cfg.earliest_time ELSE new_time_hours

GeyserAdjustedDays(new_time_hours) ==
    IF new_time_hours < 0 THEN -1
    ELSE IF new_time_hours >= 2400 THEN new_time_hours \div 2400
    ELSE 0

GeyserNewPublishDate(donation, original_datetime, cfg) ==
    LET clamped == GeyserClamped(donation, cfg)
        branch  == IF clamped < 0 THEN "neg" ELSE IF clamped >= 2400 THEN "over" ELSE "norm"
        new_time_hours == IF clamped < 0 THEN clamped + 2400
                          ELSE IF clamped >= 2400 THEN clamped % 2400
                          ELSE clamped
        hours   == new_time_hours \div 100
        minutes == FloatMinutes(branch, hours, new_time_hours % 100)
    IN  Compose(original_datetime, hours, minutes, GeyserAdjustedDays(clamped))

GeyserCalculateAdjustedTime(donation, publish_date_str, cfg) ==
    IF donation <= 0 THEN NoChange
    ELSE IF publish_date_str.kind # "iso" THEN NoChange
    ELSE IF cfg.satoshis_per_minute = 0 THEN NoChange
    ELSE LET original_datetime == ParseUTC(publish_date_str)
         IN  ReturnIfChanged(GeyserNewPublishDate(donation, original_datetime, cfg),
                             original_datetime)

(***************************************************************************)
(* BoostingMonitor.calculate_adjusted_time, step by step, in minutes.      *)
(***************************************************************************)
\* Mutant: the maximum reduction is not applied.
BoostingMinutes_NoClamp(donation, cfg) == donation \div cfg.satoshis_per_minute

BoostingMinutes(donation, cfg) ==
    LET minutes_to_subtract == donation \div cfg.satoshis_per_minute
        max_minutes == cfg.max_reduction * 60
    IN  IF minutes_to_subtract > max_minutes THEN max_minutes ELSE minutes_to_subtract

\* new_time_minutes = start_time_minutes - minutes_to_subtract
BoostingNewTimeMinutes(donation, cfg) ==
    IntTimes60(cfg.start_time) - BoostingMinutes(donation, cfg)

\* Mutant: the floor at earliest_time_minutes is not applied.
BoostingClamped_NoFloor(donation, cfg) == BoostingNewTimeMinutes(donation, cfg)

\* ... after the floor at earliest_time_minutes
BoostingClamped(donation, cfg) ==
    LET new_time_minutes == BoostingNewTimeMinutes(donation, cfg)
        earliest_time_minutes == IntTimes60(cfg.earliest_time)
    IN  IF new_time_minutes < earliest_time_minutes THEN earliest_time_minutes
        ELSE new_time_minutes

BoostingAdjustedDays(new_time_minutes) ==
    IF new_time_minutes < 0 THEN -1
    ELSE IF new_time_minutes >= 1440 THEN new_time_minutes \div 1440
    ELSE 0

BoostingNewPublishDate(donation, original_datetime, cfg) ==
    LET clamped == BoostingClamped(donation, cfg)
        new_time_minutes == IF clamped < 0 THEN clamped + 1440
                            ELSE IF clamped >= 1440 THEN clamped % 1440
                            ELSE clamped
    IN  Compose(original_datetime, new_time_minutes \div 60, new_time_minutes % 60,
                BoostingAdjustedDays(clamped))

BoostingCalculateAdjustedTime(donation, publish_date_str, cfg) ==
    IF publish_date_str.kind # "iso" THEN NoChange
    ELSE IF cfg.satoshis_per_minute = 0 THEN NoChange
    ELSE LET original_datetime == ParseUTC(publish_date_str)
             new_publish_date == BoostingNewPublishDate(donation, original_datetime, cfg)
         IN  IF new_publish_date.hour \notin 0 .. 23 THEN NoChange
             ELSE ReturnIfChanged(new_publish_date, original_datetime)

(***************************************************************************)
(*                           The poll cycle                                *)
(*                                                                         *)
(* Deployment parameters that the source reads from its configuration      *)
(* file: the goal and the notification threshold have no fallback; the     *)
(* bot backend is enabled here.                                            *)
(***************************************************************************)
final_goal == 120
notification_threshold == 100
use_telegram_backend == TRUE
max_js_failures == 3

(***************************************************************************)
(* The text extract_goals_info returns for a fetched page, by what the     *)
(* later steps read from it: the "Goal: X" and "Current: Y" parts written  *)
(* by process_and_clean_text (0 when the part is absent), the first        *)
(* "<n> sats" amount of the remaining text (0 when there is none), and     *)
(* whether the text holds "100%" or "Abgeschlossen".  blank is the empty   *)
(* text.  NoFile stands for a snapshot file that does not exist.  A file   *)
(* variable holds the text extract_goals_info reads from the file.         *)
(***************************************************************************)
Content(goal, current, sats, marker) ==
    [blank |-> FALSE, goal |-> goal, current |-> current, sats |-> sats,
     marker |-> marker]

BlankContent ==
    [blank |-> TRUE, goal |-> 0, current |-> 0, sats |-> 0, marker |-> FALSE]

NoFile == [blank |-> TRUE, goal |-> -1, current |-> -1, sats |-> -1, marker |-> FALSE]

\* A fetched page with an empty body (st_size = 0).
EmptyFile == [blank |-> TRUE, goal |-> -2, current |-> -2, sats |-> -2, marker |-> FALSE]

Contents ==
    { BlankContent,
      Content(final_goal, 60, 0, FALSE),
      Content(final_goal, 125, 0, TRUE) }

\* Mutant: the empty content counts as the full goal.
extract_donation_amount_EmptyAsGoal(content) ==
    IF content.blank THEN final_goal
    ELSE IF content.current # 0 THEN content.current
    ELSE IF content.goal # 0 /\ content.goal # final_goal THEN content.goal
    ELSE content.sats

\* None is 0: process_change tests the amount for truth only.
extract_donation_amount(content) ==
    IF content.blank THEN 0
    ELSE IF content.current # 0 THEN content.current
    ELSE IF content.goal # 0 /\ content.goal # final_goal THEN content.goal
    ELSE content.sats

\* Mutant: only the markers count.
is_goal_reached_MarkerOnly(content) == content.marker

is_goal_reached(content) == content.marker \/ content.blank

boosting_is_goal_reached(current_balance) == current_balance >= final_goal

\* Mutant: every comparison with an existing previous file reports a change.
compare_content_Always(current, previous) == previous # NoFile

\* Mutant: a missing previous file is read as the empty text and compared.
compare_content_NoFirstRun(current, previous) ==
    current # (IF previous = NoFile THEN BlankContent ELSE previous)

\* compare_content: no previous file is the first check; otherwise the two
\* extracted texts are compared.
compare_content(current, previous) == previous # NoFile /\ current # previous

(***************************************************************************)
(* Texts, as the extractor functions see them: a sequence of tokens.  A    *)
(* plain number is written in digits only ("950", "1000"), a grouped one   *)
(* with commas ("1,000"), a percentage is digits followed by "%"; a word   *)
(* holds no digit; blank is a run of white space.  Tokens other than       *)
(* blanks are separated by white space.                                    *)
(***************************************************************************)
Plain(v) == [kind |-> "plain", value |-> v, chars |-> ""]

Grouped(v) == [kind |-> "grouped", value |-> v, chars |-> ""]

Percent(v) == [kind |-> "percent", value |-> v, chars |-> "%"]

Word(w) == [kind |-> "word", value |-> 0, chars |-> w]

Blank == [kind |-> "blank", value |-> 0, chars |-> " "]

Tokens ==
    { Plain(0), Plain(5), Plain(950), Plain(1000), Grouped(1000),
      Grouped(20000000), Percent(100), Percent(50), Word("Abgeschlossen"),
      Word("ABGESCHLOSSEN"), Word("funded"), Blank }

Texts == UNION { [1 .. n -> Tokens] : n \in 0 .. MaxLen }

\* A string with the parts process_and_clean_text writes: "Goal: <goal>"
\* and "Current: <current>" (absent when 0), then the tokens of text.
Structured(goal, current, text) == [goal |-> goal, current |-> current, text |-> text]

\* process_and_clean_text, steps 1 and 2: white space is normalised and
\* the ends are stripped.
CleanedText(text) == SelectSeq(text, LAMBDA t : t.kind # "blank")

\* What number_pattern, \b\d{1,3}(?:,\d{3})*(?:\.\d+)?\b, matches in one
\* token: a run of four or more digits without commas has no match, since
\* no word boundary follows its first one to three digits and none
\* precedes its later digits.
NumberMatch(t) ==
    CASE t.kind = "grouped" -> << t.value >>
      [] t.kind \in {"plain", "percent"} ->
            IF t.value < 1000 THEN << t.value >> ELSE << >>
      [] OTHER -> << >>

\* re.findall(number_pattern, cleaned_text), converted to integers.
RECURSIVE AllNumbers(_)
AllNumbers(text) ==
    IF text = << >> THEN << >>
    ELSE NumberMatch(Head(text)) \o AllNumbers(Tail(text))

\* Upper end of the plausible donation values.
MaxPlausible == 10000000

\* process_and_clean_text, step 4.
ExtractedNumbers(text) ==
    SelectSeq(AllNumbers(text), LAMBDA n : 1 <= n /\ n <= MaxPlausible)

\* sorted(set(extracted_numbers), reverse=True)
RECURSIVE SortedReverse(_)
SortedReverse(S) ==
    IF S = {} THEN << >>
    ELSE LET m == CHOOSE x \in S : \A y \in S : y <= x
         IN  << m >> \o SortedReverse(S \ {m})

\* unique_numbers: the numbers in text order, later repetitions dropped.
RECURSIVE UniqueNumbers(_, _)
UniqueNumbers(numbers, seen) ==
    IF numbers = << >> THEN << >>
    ELSE IF Head(numbers) \in seen THEN UniqueNumbers(Tail(numbers), seen)
    ELSE << Head(numbers) >> \o UniqueNumbers(Tail(numbers), seen \cup {Head(numbers)})

\* abs(goal_amount - current_amount) < goal_amount * 0.1; on the integers of
\* the plausible range the float comparison agrees with the exact one.
VerySimilar(goal_amount, current_amount) ==
    LET d == IF goal_amount >= current_amount THEN goal_amount - current_amount
             ELSE current_amount - goal_amount
    IN  10 * d < goal_amount

\* process_and_clean_text, step 5: <<goal_amount, current_amount>>, None as 0.
GoalAndCurrent(extracted_numbers) ==
    IF Len(extracted_numbers) >= 2
    THEN LET sorted_numbers == SortedReverse({ extracted_numbers[i] :
                                               i \in 1 .. Len(extracted_numbers) })
             goal_amount == sorted_numbers[1]
             current_amount == IF Len(sorted_numbers) > 1 THEN sorted_numbers[2] ELSE 0
             unique_numbers == UniqueNumbers(extracted_numbers, {})
         IN  IF current_amount # 0 /\ VerySimilar(goal_amount, current_amount)
                /\ Len(unique_numbers) >= 2
             THEN << unique_numbers[1], unique_numbers[2] >>
             ELSE << goal_amount, current_amount >>
    ELSE IF Len(extracted_numbers) = 1
    THEN << final_goal, extracted_numbers[1] >>
    ELSE << 0, 0 >>

\* process_and_clean_text: "" for the empty text, otherwise the goal and
\* current parts and the cleaned text.
process_and_clean_text(text) ==
    IF text = << >> THEN Structured(0, 0, << >>)
    ELSE LET cleaned_text == CleanedText(text)
             amounts == GoalAndCurrent(ExtractedNumbers(cleaned_text))
         IN  Structured(amounts[1], amounts[2], cleaned_text)

\* f"{amount:,}": the amount written with grouping commas.
FormatAmount(amount) == IF amount < 1000 THEN Plain(amount) ELSE Grouped(amount)

\* The first one to three digits of a number written in digits only.
RECURSIVE LeadingDigits(_)
LeadingDigits(v) == IF v < 1000 THEN v ELSE LeadingDigits(v \div 10)

\* extract_goal_and_current_from_text: what (\d{1,3}(?:,\d{3})*) captures of
\* the token after "Goal:" or "Current:", converted to an integer.
CapturedAmount(t) ==
    IF t.kind = "grouped" THEN t.value ELSE LeadingDigits(t.value)

\* Lower case of a word, for the searches with re.IGNORECASE.
Lower(w) ==
    CASE w = "Abgeschlossen" -> "abgeschlossen"
      [] w = "ABGESCHLOSSEN" -> "abgeschlossen"
      [] OTHER -> w

\* is_goal_reached: re.search of '100%' and of 'Abgeschlossen', ignoring
\* case.  "100%" is found in every percentage whose digits end in 100.
HasMarker(text) ==
    \E i \in 1 .. Len(text) :
        \/ text[i].kind = "percent" /\ text[i].value % 1000 = 100
        \/ text[i].kind = "word" /\ Lower(text[i].chars) = Lower("Abgeschlossen")

\* not content.strip()
IsBlank(string) ==
    /\ string.goal = 0
    /\ string.current = 0
    /\ \A i \in 1 .. Len(string.text) : string.text[i].kind = "blank"

\* A string as the later steps read it (see Content): the fallback patterns
\* of extract_donation_amount find no "<n> sats" and no "<n> btc" among
\* these tokens.
ContentOf(string) ==
    [blank |-> IsBlank(string),
     goal |-> IF string.goal = 0 THEN 0 ELSE CapturedAmount(FormatAmount(string.goal)),
     current |-> IF string.current = 0 THEN 0
                 ELSE CapturedAmount(FormatAmount(string.current)),
     sats |-> 0,
     marker |-> HasMarker(string.text)]

\* No text is being processed.
NoExtraction ==
    [stage |-> "none", text |-> << >>, content |-> Structured(0, 0, << >>),
     amount |-> 0, reached |-> FALSE]

\* Wallet balances the Alby API reports.
Balances == {0, 60, 125, 130}

(***************************************************************************)
(* Wall clock and timestamps, in seconds.                                  *)
(***************************************************************************)
ClockAt(d, h, mi, s) == ((d * 24 + h) * 60 + mi) * 60 + s

NowTimes == { ClockAt(2, 12, 0, 0), ClockAt(2, 20, 0, 0), ClockAt(2, 21, 30, 0) }

\* datetime.timestamp(datetime.fromisoformat(new_time))
Timestamp(t) == ClockAt(t.day, t.hour, t.minute, t.second)

(***************************************************************************)
(* The goal test of process_change and check_for_changes, and the request  *)
(* reschedule_episode / podhome_reschedule_episode builds from it.         *)
(***************************************************************************)
\* Mutant: the wall clock is not consulted.
GoalTrigger_IgnoreClock(goal_reached, clock, t) == goal_reached

GoalTrigger(goal_reached, clock, t) == goal_reached /\ clock >= Timestamp(t)

NoRequest == [sent |-> FALSE, publish_now |-> FALSE, publish_date |-> NoChange]

RescheduleData(publish_now, new_publish_date) ==
    [sent |-> TRUE, publish_now |-> publish_now,
     publish_date |-> IF publish_now THEN NoChange ELSE new_publish_date]

\* The string the episode API holds after a publish_date request.
AsPublishDate(t) ==
    IsoString(t.day, t.hour, t.minute, t.second, t.microsecond, "offset", 0)

\* The episode after the POST: a failed POST changes nothing, publish_now
\* releases the episode, publish_date moves it.
Rescheduled(ep, data, post_ok) ==
    IF ~post_ok THEN ep
    ELSE IF data.publish_now THEN [ep EXCEPT !.published = TRUE]
    ELSE [ep EXCEPT !.publish_date = AsPublishDate(data.publish_date)]

NoNotification == [sent |-> FALSE, action |-> "none", donation_amount |-> 0]

\* Mutant: the notification follows every successful POST.
Notification_NoThreshold(data, donation_amount, post_ok) ==
    IF post_ok /\ use_telegram
    THEN [sent |-> TRUE,
          action |-> IF data.publish_now THEN "Published" ELSE "Rescheduled",
          donation_amount |-> donation_amount]
    ELSE NoNotification

\* The notification follows a successful POST when the donation_amount
\* argument reaches the threshold.
Notification(data, donation_amount, post_ok) ==
    IF post_ok /\ use_telegram /\ donation_amount >= notification_threshold
    THEN [sent |-> TRUE,
          action |-> IF data.publish_now THEN "Published" ELSE "Rescheduled",
          donation_amount |-> donation_amount]
    ELSE NoNotification

\* publish_date as update_donations stores it: the digits of the string
\* after 'T', fraction and offset dropped, plus interval '2 hour'.
StoredPublishDate(s) ==
    LET m == s.hour * 60 + s.minute + 120
    IN  [day |-> s.day + (m \div 1440), hour |-> (m % 1440) \div 60,
         minute |-> m % 60, second |-> s.second]

\* Outcome of the reschedule POST: raise_for_status() passes or raises.
Response(data, post_ok) ==
    IF ~data.sent THEN "none" ELSE IF post_ok THEN "ok" ELSE "error"

NoStored == [day |-> 0, hour |-> 0, minute |-> 0, second |-> 0]

NoDonationUpdate == [sent |-> FALSE, amount |-> 0, publish_date |-> NoStored]

\* process_change: send_donation_update(episode_info, donation_amount), for
\* every amount that is not 0 or None, when the bot backend is enabled.
GeyserDonationUpdate(donation_amount) ==
    IF donation_amount # 0 /\ use_telegram_backend
    THEN [sent |-> TRUE, amount |-> donation_amount, publish_date |-> NoStored]
    ELSE NoDonationUpdate

\* Mutant: the database is written only after a successful POST.
BoostingDonationUpdate_AfterPostOnly(computed, post_ok, balance, t) ==
    IF computed /\ post_ok
    THEN [sent |-> TRUE, amount |-> balance, publish_date |-> StoredPublishDate(t)]
    ELSE NoDonationUpdate

\* check_for_changes: update_donation(current_episode, wallet_balance.balance)
\* whenever a new time was computed, with the episode's new publish_date.
BoostingDonationUpdate(computed, post_ok, balance, t) ==
    IF computed
    THEN [sent |-> TRUE, amount |-> balance, publish_date |-> StoredPublishDate(t)]
    ELSE NoDonationUpdate

\* Reschedule POSTs attempted while the observed donation total stays the same.
CountAttempt(attempts, amount, sent) ==
    IF attempts.amount = amount
    THEN [attempts EXCEPT !.count = @ + (IF sent THEN 1 ELSE 0)]
    ELSE [amount |-> amount, count |-> IF sent THEN 1 ELSE 0]

\* The outcomes of a call that matter: both when the call is made.
Outcomes(called) == IF called THEN BOOLEAN ELSE {TRUE}

(***************************************************************************)
(* fetch_html_content and fetch_js_content, attempt by attempt: source is   *)
(* the page being fetched ("html", "js"), "sleep" between the fetches of    *)
(* two cycles, or "none" where the fetch is taken as one step with either   *)
(* result.                                                                  *)
(***************************************************************************)
NoFetch == [source |-> "none", attempt |-> 0, returned |-> "none", max_retries |-> 0]

\* The call starts: for attempt in range(1, self.max_retries + 1)
StartFetch(f, source) ==
    IF f.source = "none" THEN f
    ELSE [f EXCEPT !.source = source, !.attempt = 0,
                   !.returned = IF source = "sleep" THEN "none" ELSE "running"]

\* Mutant: the loop over the attempts has no end.
Exhausted_Never(f) == FALSE

\* range(1, self.max_retries + 1) is used up.
Exhausted(f) == f.attempt >= f.max_retries

\* The values the fetch call of the check of source can return.
FetchResults(f, source) ==
    IF f.source = "none" THEN BOOLEAN
    ELSE IF f.source = source /\ f.returned \in {"true", "false"}
    THEN {f.returned = "true"}
    ELSE {}

(***************************************************************************)
(* DatabaseManager._initialize_connection in PostgreSQL mode: a new        *)
(* PostgreSQLConnection whose get_connection creates a pool; the object    *)
(* and the pool of the call before are dropped without close().  When the  *)
(* pool cannot be created the manager falls back to SQLiteConnection.      *)
(***************************************************************************)
initialize_connection(open, pool_ok) == IF pool_ok THEN open + 1 ELSE open

(***************************************************************************)
(* The episodes table of the Telegram bot (PodcastDB) and the two threads  *)
(* that write it: the main thread runs the initial sync_planned_episodes,  *)
(* the API thread serves /update-donations and /sync-episodes, one request *)
(* at a time.  Each PodcastDB method is one SQL statement on a connection  *)
(* of its own.  A row is the episode_id, the donations and, as version,    *)
(* the columns a sync writes (title, status, publish_date, ...).           *)
(***************************************************************************)
EpisodeIds == {"e1", "e2"}

Versions == {1, 2}

DonationAmounts == {60, 125}

Row(episode_id, version, donations) ==
    [episode_id |-> episode_id, version |-> version, donations |-> donations]

\* The episode lists fetch_episodes returns to a sync.
EpisodeLists ==
    { << >> }
    \cup { << [episode_id |-> "e1", version |-> v] >> : v \in Versions }
    \cup { << [episode_id |-> "e1", version |-> v],
              [episode_id |-> "e2", version |-> v] >> : v \in Versions }

\* SELECT ... WHERE episode_id = ?
get_episode(table, episode_id) == {r \in table : r.episode_id = episode_id}

\* INSERT INTO episodes: donations takes its default 0; PRIMARY KEY
\* ("episode_id") rejects a second row (sqlite3.IntegrityError, logged by
\* insert_episodes_to_db).
insert_episode(table, ep) ==
    IF get_episode(table, ep.episode_id) # {} THEN table
    ELSE table \cup {Row(ep.episode_id, ep.version, 0)}

\* Mutant: the sync replaces the row, donations back at the default.
update_episode_Replace(table, ep) ==
    { IF r.episode_id = ep.episode_id THEN Row(ep.episode_id, ep.version, 0) ELSE r :
        r \in table }

\* UPDATE episodes set title = ?, ... WHERE episode_id = ?
update_episode(table, ep) ==
    { IF r.episode_id = ep.episode_id THEN [r EXCEPT !.version = ep.version] ELSE r :
        r \in table }

\* UPDATE episodes SET donations = ? WHERE episode_id = ?
update_donations(table, episode_id, amount) ==
    { IF r.episode_id = episode_id THEN [r EXCEPT !.donations = amount] ELSE r :
        r \in table }

Threads == {"main", "api"}

ThreadAt(position) == [pc |-> position, todo |-> << >>, found |-> FALSE]

\* Where a thread is when its sync has ended.
Ended(t) == IF t = "main" THEN "polling" ELSE "idle"

NoUpdate == [sent |-> FALSE, episode_id |-> "none", amount |-> 0, existed |-> FALSE]

\* requests and last: the requests the API thread has taken; updated: the
\* latest /update-donations request, and whether its episode had a row.
NoBot ==
    [table |-> {}, main |-> ThreadAt("off"), api |-> ThreadAt("off"),
     requests |-> 0, last |-> "none", updated |-> NoUpdate]

\* The planned episodes of the API: none once the episode is released, and
\* none when the GET fails.
get_episode_info(ep, api_ok) == api_ok /\ ~ep.published

\* The cycle variables while only the calculator runs.
CycleIdle ==
    /\ episode = [publish_date |-> publish_date, published |-> FALSE]
    /\ first_publish_date = publish_date
    /\ previous_goals = NoFile
    /\ previous_js_goals = NoFile
    /\ tasks = << >>
    /\ pc = "html"
    /\ check_count = 0
    /\ use_javascript = TRUE
    /\ js_failures = 0
    /\ now = ClockAt(2, 12, 0, 0)
    /\ current_goals = NoFile
    /\ calculated = FALSE
    /\ request = NoRequest
    /\ notification = NoNotification
    /\ db = [donations |-> 0, publish_date |-> StoredPublishDate(publish_date)]
    /\ use_telegram = TRUE
    /\ wallet_balance = -1
    /\ response = "none"
    /\ donation_update = NoDonationUpdate
    /\ post_attempts = [amount |-> 0, count |-> 0]
    /\ current_file = NoFile
    /\ current_js_file = NoFile
    /\ fetch = NoFetch
    /\ pools = 0

(***************************************************************************)
(* The calculator as a state machine: a configuration and an episode       *)
(* publish_date are given; either monitor computes the adjusted time for a *)
(* donation amount, once per behaviour.                                    *)
(***************************************************************************)
Init ==
    /\ config \in Configs
    /\ publish_date \in PublishDates
    /\ variant = "none"
    /\ donation_satoshis = 0
    /\ new_time = NoChange
    /\ CycleIdle
    /\ extraction = NoExtraction
    /\ bot = NoBot

GeyserCalculate ==
    \E amount \in Amounts :
        /\ variant = "none"
        /\ variant' = "geyser"
        /\ donation_satoshis' = amount
        /\ new_time' = GeyserCalculateAdjustedTime(amount, publish_date, config)
        /\ UNCHANGED <<config, publish_date>>
        /\ UNCHANGED <<cycle_vars, extraction, bot>>

BoostingCalculate ==
    \E amount \in Amounts :
        /\ variant = "none"
        /\ variant' = "boosting"
        /\ donation_satoshis' = amount
        /\ new_time' = BoostingCalculateAdjustedTime(amount, publish_date, config)
        /\ UNCHANGED <<config, publish_date>>
        /\ UNCHANGED <<cycle_vars, extraction, bot>>

Next == GeyserCalculate \/ BoostingCalculate

Spec == Init /\ [][Next]_vars

(***************************************************************************)
(* The poll cycle as a state machine.  An episode is planned at the        *)
(* episode API; a monitor polls the donation total and reschedules the     *)
(* episode.  GeyserMonitor.monitor_loop checks the HTML page, then the     *)
(* JavaScript page, then sleeps; the process_change tasks that             *)
(* compare_content creates run when the loop next suspends (in             *)
(* fetch_js_content or in the sleep), one after the other, since           *)
(* process_change itself never suspends.  BoostingMonitor.monitor_loop     *)
(* runs check_for_changes once per cycle.                                  *)
(***************************************************************************)
CycleConfigs ==
    { Cfg(1, 2, 2000, 2200), Cfg(1, 2, -200, 100), Cfg(1, 1, 1000, 2500) }

CyclePublishDates ==
    { IsoString(2, 22, 0, 0, 0, "Z", 0) }

InitCycle ==
    /\ variant \in {"geyser", "boosting"}
    /\ config \in CycleConfigs
    /\ first_publish_date \in CyclePublishDates
    /\ publish_date = first_publish_date
    /\ episode = [publish_date |-> first_publish_date, published |-> FALSE]
    /\ donation_satoshis = 0
    /\ new_time = NoChange
    /\ previous_goals = NoFile
    /\ previous_js_goals = NoFile
    /\ tasks = << >>
    /\ pc = IF variant = "geyser" THEN "html" ELSE "check"
    /\ check_count = 0
    /\ use_javascript = TRUE
    /\ js_failures = 0
    /\ now = ClockAt(2, 12, 0, 0)
    /\ current_goals = NoFile
    /\ calculated = FALSE
    /\ request = NoRequest
    /\ notification = NoNotification
    /\ db = [donations |-> 0, publish_date |-> StoredPublishDate(first_publish_date)]
    /\ use_telegram \in BOOLEAN
    /\ wallet_balance = -1
    /\ response = "none"
    /\ donation_update = NoDonationUpdate
    /\ post_attempts = [amount |-> 0, count |-> 0]
    /\ current_file = NoFile
    /\ current_js_file = NoFile
    /\ extraction = NoExtraction
    /\ fetch = NoFetch
    /\ pools = 0
    /\ bot = NoBot

\* The cycles of a run that are followed: MaxChecks, and one more once the
\* JavaScript check is switched off (while True has no end).
CheckBound(javascript) == IF javascript THEN MaxChecks ELSE MaxChecks + 1

\* Mutant: the JavaScript check is never switched off.
SwitchOff_Never(failures) == FALSE

\* if js_failures >= max_js_failures: self.use_javascript = False
SwitchOff(failures) == failures >= max_js_failures

\* Mutant: a fetched page is compared and copied whatever its size.
HasSize_Always(file) == TRUE

\* self.current_file.stat().st_size > 0
HasSize(file) == file # EmptyFile

\* Mutant: the exception of a failed step is raised into monitor_loop.
Propagates_Uncaught(failed) == failed

\* Whether the exception of a failed step reaches monitor_loop, whose only
\* handler is for KeyboardInterrupt: each step called from the loop
\* (fetch_html_content, fetch_js_content, extract_goals_info, the episode,
\* wallet and database getters, the reschedule, notification and donation
\* update calls) catches Exception itself and returns a default.
Propagates(failed) == FALSE

\* Mutant: the loop resumes from an await while tasks are still waiting.
CanResume_Early(ready) == TRUE

\* Whether monitor_loop resumes from an await that suspended it (the
\* browser calls of fetch_js_content, asyncio.sleep): the event loop first
\* runs the process_change tasks that are ready, and each runs to its end,
\* since every call process_change awaits uses the blocking requests
\* session and never suspends.
CanResume(ready) == ready = << >>

\* monitor_loop, HTML check: a fetched page with a body is compared with
\* the previous one, a change creates a process_change task, and the page
\* becomes the previous one.  A failed fetch leaves the files as they are,
\* an empty body is written to current.html and neither compared nor copied.
HtmlCheck ==
    /\ variant = "geyser"
    /\ pc = "html"
    /\ check_count < CheckBound(use_javascript)
    /\ check_count' = check_count + 1
    /\ fetch' = StartFetch(fetch, IF use_javascript THEN "js" ELSE "sleep")
    /\ \E fetched \in FetchResults(fetch, "html") :
       \E current \in (IF fetched THEN Contents \cup {EmptyFile} ELSE {NoFile}) :
        /\ pc' = IF Propagates(~fetched) THEN "stopped"
                 ELSE IF use_javascript THEN "js" ELSE "sleep"
        /\ IF fetched /\ HasSize(current)
           THEN /\ current_file' = current
                /\ tasks' = IF compare_content(current, previous_goals)
                            THEN Append(tasks, current) ELSE tasks
                /\ previous_goals' = current
           ELSE /\ current_file' = IF fetched THEN current ELSE current_file
                /\ UNCHANGED <<tasks, previous_goals>>
    /\ UNCHANGED <<calc_vars, episode, first_publish_date, previous_js_goals,
                   current_js_file,
                   use_javascript, js_failures, now, current_goals, calculated,
                   request, notification, db, use_telegram, wallet_balance,
                   response, donation_update, post_attempts, extraction, pools,
                   bot>>

\* monitor_loop, JavaScript check: as the HTML check on its own snapshot; a
\* failed fetch counts, and the third failure in a row switches the check off.
JsCheck ==
    /\ variant = "geyser"
    /\ pc = "js"
    /\ CanResume(tasks)
    /\ fetch' = StartFetch(fetch, "sleep")
    /\ \E fetched \in FetchResults(fetch, "js") :
       \E current \in (IF fetched THEN Contents ELSE {NoFile}) :
        /\ pc' = IF Propagates(~fetched) THEN "stopped" ELSE "sleep"
        /\ IF fetched
           THEN /\ js_failures' = 0
                /\ current_js_file' = current
                /\ tasks' = IF compare_content(current, previous_js_goals)
                            THEN Append(tasks, current) ELSE tasks
                /\ previous_js_goals' = current
                /\ UNCHANGED use_javascript
           ELSE /\ js_failures' = js_failures + 1
                /\ use_javascript' = IF SwitchOff(js_failures + 1) THEN FALSE
                                     ELSE use_javascript
                /\ UNCHANGED <<tasks, previous_js_goals, current_js_file>>
    /\ UNCHANGED <<calc_vars, episode, first_publish_date, previous_goals,
                   current_file,
                   check_count, now, current_goals, calculated, request,
                   notification, db, use_telegram, wallet_balance, response,
                   donation_update, post_attempts, extraction, pools, bot>>

\* process_change(current_goals), run to its end.
ProcessChange ==
    /\ variant = "geyser"
    /\ pc \in {"js", "sleep"}
    /\ tasks # << >>
    /\ \E clock \in {t \in NowTimes : t >= now}, api_ok \in BOOLEAN :
        LET goals == Head(tasks)
            found == get_episode_info(episode, api_ok)
            donation_amount == IF found THEN extract_donation_amount(goals) ELSE 0
            calc == IF donation_amount # 0
                    THEN GeyserCalculateAdjustedTime(donation_amount,
                                                     episode.publish_date, config)
                    ELSE NoChange
            publish_now == GoalTrigger(is_goal_reached(goals), clock, calc)
            data == IF calc.empty THEN NoRequest ELSE RescheduleData(publish_now, calc)
            amount_arg == IF publish_now THEN final_goal ELSE donation_amount
            update == GeyserDonationUpdate(donation_amount)
        IN  \E post_ok \in Outcomes(data.sent), backend_ok \in Outcomes(update.sent) :
            /\ now' = clock
            /\ tasks' = Tail(tasks)
            /\ current_goals' = goals
            /\ publish_date' = IF found THEN episode.publish_date ELSE publish_date
            /\ calculated' = (donation_amount # 0)
            /\ donation_satoshis' = donation_amount
            /\ new_time' = calc
            /\ request' = data
            /\ episode' = IF data.sent THEN Rescheduled(episode, data, post_ok)
                          ELSE episode
            /\ notification' = IF data.sent
                               THEN Notification(data, amount_arg, post_ok)
                               ELSE NoNotification
            /\ response' = Response(data, post_ok)
            /\ donation_update' = update
            /\ db' = IF update.sent /\ backend_ok
                     THEN [db EXCEPT !.donations = update.amount]
                     ELSE db
            /\ post_attempts' = CountAttempt(post_attempts,
                                             extract_donation_amount(goals), data.sent)
    /\ UNCHANGED <<config, variant, first_publish_date, previous_goals,
                   previous_js_goals, pc, check_count, use_javascript, js_failures,
                   use_telegram, wallet_balance, current_file, current_js_file,
                   extraction, fetch, pools, bot>>

\* monitor_loop: asyncio.sleep(check_interval) returns once the tasks ran.
Sleep ==
    /\ variant = "geyser"
    /\ pc = "sleep"
    /\ CanResume(tasks)
    /\ pc' = "html"
    /\ fetch' = StartFetch(fetch, "html")
    /\ UNCHANGED <<calc_vars, episode, first_publish_date, previous_goals,
                   previous_js_goals, tasks, check_count, use_javascript,
                   js_failures, now, current_goals, calculated, request,
                   notification, db, use_telegram, wallet_balance, response,
                   donation_update, post_attempts, current_file, current_js_file,
                   extraction, pools, bot>>

\* BoostingMonitor.monitor_loop: one check_for_changes, run to its end.
CheckForChanges ==
    /\ variant = "boosting"
    /\ pc = "check"
    /\ check_count < MaxChecks
    /\ check_count' = check_count + 1
    /\ \E clock \in {t \in NowTimes : t >= now}, wallet_ok \in BOOLEAN,
          pool_ok \in BOOLEAN :
       \E balance \in (IF wallet_ok THEN Balances ELSE {0}),
          api_ok \in Outcomes(wallet_ok) :
       \E db_ok \in (IF pool_ok THEN Outcomes(wallet_ok /\ api_ok) ELSE {FALSE}) :
        LET found == get_episode_info(episode, api_ok) /\ db_ok /\ wallet_ok
            changed == found /\ balance # db.donations
            calc == IF changed
                    THEN BoostingCalculateAdjustedTime(balance, episode.publish_date,
                                                       config)
                    ELSE NoChange
            publish_now == GoalTrigger(boosting_is_goal_reached(balance), clock, calc)
            data == IF calc.empty THEN NoRequest ELSE RescheduleData(publish_now, calc)
            amount_arg == IF publish_now THEN final_goal ELSE balance
        IN  \E post_ok \in Outcomes(data.sent), update_ok \in Outcomes(data.sent) :
            LET update == BoostingDonationUpdate(data.sent, post_ok, balance, calc)
            IN
            /\ now' = clock
            /\ pools' = initialize_connection(pools, pool_ok)
            /\ pc' = IF Propagates(~(wallet_ok /\ api_ok /\ db_ok /\ post_ok
                                     /\ update_ok))
                     THEN "stopped" ELSE "check"
            /\ wallet_balance' = IF wallet_ok THEN balance ELSE -1
            /\ publish_date' = IF found THEN episode.publish_date ELSE publish_date
            /\ calculated' = changed
            /\ donation_satoshis' = IF changed THEN balance ELSE 0
            /\ new_time' = calc
            /\ request' = data
            /\ episode' = IF data.sent THEN Rescheduled(episode, data, post_ok)
                          ELSE episode
            /\ notification' = IF data.sent
                               THEN Notification(data, amount_arg, post_ok)
                               ELSE NoNotification
            /\ response' = Response(data, post_ok)
            /\ donation_update' = update
            /\ db' = IF update.sent /\ update_ok
                     THEN [donations |-> update.amount,
                           publish_date |-> update.publish_date]
                     ELSE db
            /\ post_attempts' = IF wallet_ok
                                THEN CountAttempt(post_attempts, balance, data.sent)
                                ELSE post_attempts
    /\ UNCHANGED <<config, variant, first_publish_date, previous_goals,
                   previous_js_goals, tasks, use_javascript, js_failures,
                   current_goals, use_telegram, current_file, current_js_file,
                   extraction, fetch, bot>>

NextCycle == HtmlCheck \/ JsCheck \/ ProcessChange \/ Sleep \/ CheckForChanges

SpecCycle == InitCycle /\ [][NextCycle]_vars

\* The monitor loop under one policy.  The event loop runs whatever is
\* ready: a fetch, a task or a sleep that can complete does complete.
InitLoop ==
    /\ InitCycle
    /\ config = Cfg(1, 2, 2000, 2200)
    /\ use_telegram

SpecLoop == InitLoop /\ [][NextCycle]_vars /\ WF_vars(NextCycle)

(***************************************************************************)
(* One poll cycle of GeyserMonitor with its fetch calls attempt by         *)
(* attempt, started after earlier cycles have stored the previous          *)
(* snapshots.                                                              *)
(***************************************************************************)
InitFetch ==
    /\ variant = "geyser"
    /\ config = Cfg(1, 2, 2000, 2200)
    /\ first_publish_date \in CyclePublishDates
    /\ publish_date = first_publish_date
    /\ episode = [publish_date |-> first_publish_date, published |-> FALSE]
    /\ donation_satoshis = 0
    /\ new_time = NoChange
    /\ previous_goals \in Contents
    /\ previous_js_goals \in Contents
    /\ tasks = << >>
    /\ pc = "html"
    /\ check_count = MaxChecks - 1
    /\ use_javascript = TRUE
    /\ js_failures \in 0 .. (max_js_failures - 1)
    /\ now = ClockAt(2, 12, 0, 0)
    /\ current_goals = NoFile
    /\ calculated = FALSE
    /\ request = NoRequest
    /\ notification = NoNotification
    /\ db = [donations |-> 0, publish_date |-> StoredPublishDate(first_publish_date)]
    /\ use_telegram = TRUE
    /\ wallet_balance = -1
    /\ response = "none"
    /\ donation_update = NoDonationUpdate
    /\ post_attempts = [amount |-> 0, count |-> 0]
    /\ current_file = previous_goals
    /\ current_js_file = previous_js_goals
    /\ extraction = NoExtraction
    /\ pools = 0
    /\ bot = NoBot
    /\ \E retries \in 0 .. MaxRetries :
        fetch = [source |-> "html", attempt |-> 0, returned |-> "running",
                 max_retries |-> retries]

\* One pass of the loop over the attempts: the request (or the browser
\* session) succeeds and the call returns True, or it raises, the warning is
\* logged and the loop goes on after the delay.
FetchAttempt ==
    /\ fetch.returned = "running"
    /\ ~Exhausted(fetch)
    /\ \E ok \in BOOLEAN :
        fetch' = [fetch EXCEPT !.attempt = @ + 1,
                               !.returned = IF ok THEN "true" ELSE "running"]
    /\ UNCHANGED <<calc_vars, episode, first_publish_date, previous_goals,
                   previous_js_goals, tasks, pc, check_count, use_javascript,
                   js_failures, now, current_goals, calculated, request,
                   notification, db, use_telegram, wallet_balance, response,
                   donation_update, post_attempts, current_file, current_js_file,
                   extraction, pools, bot>>

\* The loop over the attempts is used up: return False.
FetchExhausted ==
    /\ fetch.returned = "running"
    /\ Exhausted(fetch)
    /\ fetch' = [fetch EXCEPT !.returned = "false"]
    /\ UNCHANGED <<calc_vars, episode, first_publish_date, previous_goals,
                   previous_js_goals, tasks, pc, check_count, use_javascript,
                   js_failures, now, current_goals, calculated, request,
                   notification, db, use_telegram, wallet_balance, response,
                   donation_update, post_attempts, current_file, current_js_file,
                   extraction, pools, bot>>

NextFetch ==
    FetchAttempt \/ FetchExhausted \/ HtmlCheck \/ JsCheck \/ ProcessChange \/ Sleep

SpecFetch == InitFetch /\ [][NextFetch]_vars /\ WF_vars(NextFetch)

(***************************************************************************)
(* The extractor functions as a state machine: a text is given;            *)
(* process_and_clean_text turns it into the structured string, from which  *)
(* extract_donation_amount reads the amount; is_goal_reached tests either  *)
(* the text itself or the structured string.                               *)
(***************************************************************************)
InitExtract ==
    /\ config = Cfg(1, 2, 2000, 2200)
    /\ publish_date \in CyclePublishDates
    /\ variant = "geyser"
    /\ donation_satoshis = 0
    /\ new_time = NoChange
    /\ CycleIdle
    /\ bot = NoBot
    /\ \E text \in Texts :
        extraction = [stage |-> "text", text |-> text,
                      content |-> Structured(0, 0, text),
                      amount |-> 0, reached |-> FALSE]

ProcessAndCleanText ==
    /\ extraction.stage = "text"
    /\ extraction' = [extraction EXCEPT
                        !.stage = "processed",
                        !.content = process_and_clean_text(extraction.text)]
    /\ UNCHANGED <<calc_vars, cycle_vars, bot>>

ExtractDonationAmount ==
    /\ extraction.stage = "processed"
    /\ extraction' = [extraction EXCEPT
                        !.stage = "extracted",
                        !.amount = extract_donation_amount(ContentOf(extraction.content))]
    /\ UNCHANGED <<calc_vars, cycle_vars, bot>>

IsGoalReached ==
    /\ extraction.stage \in {"text", "extracted"}
    /\ extraction' = [extraction EXCEPT
                        !.stage = IF @ = "text" THEN "tested text" ELSE "tested",
                        !.reached = is_goal_reached(ContentOf(extraction.content))]
    /\ UNCHANGED <<calc_vars, cycle_vars, bot>>

NextExtract == ProcessAndCleanText \/ ExtractDonationAmount \/ IsGoalReached

SpecExtract == InitExtract /\ [][NextExtract]_vars

(***************************************************************************)
(* The Telegram bot as a state machine.  main() starts the API thread and  *)
(* then runs the initial sync_planned_episodes in the main thread; the API *)
(* thread takes /update-donations and /sync-episodes requests, each run to *)
(* its end before the next.  The statements of the two threads interleave. *)
(* The database file outlives a run: the table starts empty or with a row. *)
(***************************************************************************)
InitSync ==
    /\ config = Cfg(1, 2, 2000, 2200)
    /\ publish_date \in CyclePublishDates
    /\ variant = "geyser"
    /\ donation_satoshis = 0
    /\ new_time = NoChange
    /\ CycleIdle
    /\ extraction = NoExtraction
    /\ \E table \in { {}, {Row("e1", 1, 60)} } :
        bot = [NoBot EXCEPT !.table = table, !.main = ThreadAt("start"),
                            !.api = ThreadAt("idle")]

\* sync_planned_episodes: fetch_episodes, then insert_episodes_to_db, which
\* returns at once for an empty list.
SyncPlannedEpisodes ==
    /\ \E t \in Threads, episodes \in EpisodeLists :
        /\ bot[t].pc = (IF t = "main" THEN "start" ELSE "idle")
        /\ t = "api" => bot.requests < MaxRequests
        /\ bot' = [bot EXCEPT
                     ![t] = IF episodes = << >> THEN ThreadAt(Ended(t))
                            ELSE [pc |-> "get", todo |-> episodes, found |-> FALSE],
                     !.requests = IF t = "api" THEN @ + 1 ELSE @,
                     !.last = IF t = "api" THEN "sync" ELSE @]
    /\ UNCHANGED <<calc_vars, cycle_vars, extraction>>

\* insert_episodes_to_db: if not db.get_episode(episode.get('episode_id'))
GetEpisode ==
    /\ \E t \in Threads :
        /\ bot[t].pc = "get"
        /\ bot' = [bot EXCEPT
                     ![t].pc = "put",
                     ![t].found = get_episode(bot.table,
                                              Head(bot[t].todo).episode_id) # {}]
    /\ UNCHANGED <<calc_vars, cycle_vars, extraction>>

\* insert_episodes_to_db: db.insert_episode(episode) or
\* db.update_episode(episode), then the next episode of the list.
InsertOrUpdateEpisode ==
    /\ \E t \in Threads :
        /\ bot[t].pc = "put"
        /\ LET ep == Head(bot[t].todo)
               rest == Tail(bot[t].todo)
           IN  bot' = [bot EXCEPT
                         !.table = IF bot[t].found THEN update_episode(@, ep)
                                   ELSE insert_episode(@, ep),
                         ![t] = IF rest = << >> THEN ThreadAt(Ended(t))
                                ELSE [pc |-> "get", todo |-> rest, found |-> FALSE]]
    /\ UNCHANGED <<calc_vars, cycle_vars, extraction>>

\* add_donation (/update-donations): db.update_donations, answered with
\* status "success" whether or not a row was updated.
AddDonation ==
    /\ bot.api.pc = "idle"
    /\ bot.requests < MaxRequests
    /\ \E episode_id \in EpisodeIds, amount \in DonationAmounts :
        bot' = [bot EXCEPT
                  !.table = update_donations(@, episode_id, amount),
                  !.requests = @ + 1,
                  !.last = "update",
                  !.updated = [sent |-> TRUE, episode_id |-> episode_id,
                               amount |-> amount,
                               existed |-> get_episode(bot.table, episode_id) # {}]]
    /\ UNCHANGED <<calc_vars, cycle_vars, extraction>>

NextSync == SyncPlannedEpisodes \/ GetEpisode \/ InsertOrUpdateEpisode \/ AddDonation

SpecSync == InitSync /\ [][NextSync]_vars

(***************************************************************************)
(*                    Properties of the calculator                         *)
(***************************************************************************)
Calculated == variant # "none" /\ publish_date.kind = "iso"

\* floor(amount / rate) of the state's donation amount
FloorMinutes == donation_satoshis \div config.satoshis_per_minute

MaxMinutes == config.max_reduction * 60

\* The UTC calendar day of an ISO string, from its local day and offset.
UtcDay(s) ==
    IF s.suffix = "offset" /\ s.hour * 60 + s.minute < s.utcoffset
    THEN s.day - 1 ELSE s.day

\* Minutes of a result counted from 00:00 of the original publish date (UTC);
\* negative on earlier days.
SignedMinutes(t) ==
    (t.day - UtcDay(publish_date)) * 1440 + t.hour * 60 + t.minute

CalculateOf(v, amount) ==
    IF v = "geyser" THEN GeyserCalculateAdjustedTime(amount, publish_date, config)
    ELSE BoostingCalculateAdjustedTime(amount, publish_date, config)

\* C1: bound saturation.  For every policy and every amount > 0 with
\* floor(amount / rate) >= max_reduction * 60, the reduction subtracted from
\* start_time is exactly max_reduction hours (100 * max_reduction hundredths
\* in the scrape variant, 60 * max_reduction minutes in the wallet variant),
\* and every larger amount yields the same result.
C1_BoundSaturation ==
    (Calculated /\ donation_satoshis > 0 /\ FloorMinutes >= MaxMinutes)
    => /\ variant = "geyser" =>
            config.start_time - GeyserNewTimeHours(donation_satoshis, config)
                = 100 * config.max_reduction
       /\ variant = "boosting" =>
            BoostingMinutes(donation_satoshis, config) = 60 * config.max_reduction
       /\ \A larger \in Amounts :
            larger >= donation_satoshis => CalculateOf(variant, larger) = new_time

C1_Witness ==
    /\ variant = "geyser"
    /\ config = Cfg(21, 12, 1000, 2200)
    /\ donation_satoshis = 21000
    /\ publish_date = IsoString(1, 22, 0, 0, 0, "Z", 0)
    /\ new_time = [empty |-> FALSE, day |-> 1, hour |-> 10, minute |-> 0,
                   second |-> 0, microsecond |-> 0]

\* C2: monotonic clamp.  For every policy with earliest_time <= start_time and
\* every amount >= 0, the time-of-day of a returned timestamp lies in
\* [earliest_time, start_time] (times in hundredths of an hour, the result in
\* minutes: 3 * hundredths = 5 * minutes).
C2_MonotonicClamp ==
    (Calculated /\ ~new_time.empty /\ donation_satoshis >= 0
                /\ config.earliest_time <= config.start_time)
    => /\ 3 * config.earliest_time <= 5 * SignedMinutes(new_time)
       /\ 5 * SignedMinutes(new_time) <= 3 * config.start_time

\* C3: exact minute reduction.  For every amount > 0 for which neither the
\* max_reduction clamp nor the earliest_time floor applies, the returned
\* time-of-day is start_time minus exactly floor(amount / rate) minutes.
C3_ExactMinuteReduction ==
    (Calculated /\ ~new_time.empty /\ donation_satoshis > 0
                /\ FloorMinutes <= MaxMinutes
                /\ 3 * config.start_time - 5 * FloorMinutes >= 3 * config.earliest_time)
    => 5 * SignedMinutes(new_time) = 3 * config.start_time - 5 * FloorMinutes

\* C4: for every donation amount <= 0 both variants return 'no change'.
C4_NoChangeForNonPositive ==
    (variant # "none" /\ donation_satoshis <= 0) => new_time.empty

\* C5: idempotence rule.  Whenever the computed timestamp is identical to the
\* original publish time to the second, whatever the original's sub-second
\* component, the result is 'no change'.
C5_IdempotenceToTheSecond ==
    LET original == ParseUTC(publish_date)
        computed == IF variant = "geyser"
                    THEN GeyserNewPublishDate(donation_satoshis, original, config)
                    ELSE BoostingNewPublishDate(donation_satoshis, original, config)
    IN  (Calculated /\ computed.day = original.day /\ computed.hour = original.hour
                    /\ computed.minute = original.minute
                    /\ computed.second = original.second)
        => new_time.empty

\* Seconds of a timestamp since 00:00 of day 0.
EpochSeconds(t) == ((t.day * 24 + t.hour) * 60 + t.minute) * 60 + t.second

ClampedMinutes == IF FloorMinutes > MaxMinutes THEN MaxMinutes ELSE FloorMinutes

\* C8 (as claimed): day rollover.  With start_time = 1.0 and a reduction of
\* 2 hours (more than start_time), the result is 23:00 on the calendar day
\* before the original publish date, whatever earliest_time is (0.0 in the
\* claim's example).
C8_RolloverWhenReductionExceedsStart ==
    (Calculated /\ donation_satoshis > 0 /\ config.start_time = 100
                /\ ClampedMinutes = 120)
    => new_time = [empty |-> FALSE, day |-> UtcDay(publish_date) - 1, hour |-> 23,
                   minute |-> 0, second |-> 0, microsecond |-> 0]

\* C8 (amended): the result is on an earlier calendar day than the original
\* publish date only if earliest_time < 0.  With start_time = 1.0,
\* earliest_time = -2.0 and a reduction of 2 hours it is 23:00 on the day
\* before; with start_time = 1.0, earliest_time = 0.0 it is 00:00 on the
\* original publish date.
C8_RolloverNeedsNegativeEarliest ==
    LET reduced2h == Calculated /\ donation_satoshis > 0 /\ ClampedMinutes = 120
    IN  /\ (Calculated /\ ~new_time.empty /\ new_time.day < UtcDay(publish_date))
            => config.earliest_time < 0
        /\ (reduced2h /\ config.start_time = 100 /\ config.earliest_time = -200)
            => new_time = [empty |-> FALSE, day |-> UtcDay(publish_date) - 1, hour |-> 23,
                           minute |-> 0, second |-> 0, microsecond |-> 0]
        /\ (reduced2h /\ config.start_time = 100 /\ config.earliest_time = 0)
            => new_time = [empty |-> FALSE, day |-> UtcDay(publish_date), hour |-> 0,
                           minute |-> 0, second |-> 0, microsecond |-> 0]

C8_Witness ==
    /\ variant = "boosting"
    /\ config = Cfg(1, 2, -200, 100)
    /\ donation_satoshis = 125
    /\ publish_date = IsoString(2, 1, 0, 0, 0, "Z", 0)
    /\ new_time = [empty |-> FALSE, day |-> 1, hour |-> 23, minute |-> 0,
                   second |-> 0, microsecond |-> 0]

\* C9: timestamp composition.  Every returned timestamp has seconds and
\* microseconds zero; its calendar day is the UTC day of the original publish
\* date plus the day offset of the rollover step: 0 when the clamped
\* time-of-day lies in [00:00, 24:00), -1 when it is negative, the number of
\* whole days when it is 24:00 or more.
C9_TimestampComposition ==
    LET offset == new_time.day - UtcDay(publish_date)
        g == GeyserClamped(donation_satoshis, config)
        b == BoostingClamped(donation_satoshis, config)
    IN  (Calculated /\ ~new_time.empty)
        => /\ new_time.second = 0 /\ new_time.microsecond = 0
           /\ variant = "geyser" =>
                /\ (g >= 0 /\ g < 2400) => offset = 0
                /\ g < 0 => offset = -1
                /\ g >= 2400 => offset = g \div 2400
           /\ variant = "boosting" =>
                /\ (b >= 0 /\ b < 1440) => offset = 0
                /\ b < 0 => offset = -1
                /\ b >= 1440 => offset = b \div 1440

\* An original with seconds, microseconds and a UTC offset that moves its
\* calendar day: 2nd, 00:30:00.0+02:00 is 22:30 UTC on the 1st.
C9_Witness ==
    /\ variant = "boosting"
    /\ config = Cfg(21, 12, 1000, 2200)
    /\ donation_satoshis = 21000
    /\ publish_date = IsoString(2, 0, 30, 0, 0, "offset", 120)
    /\ new_time = [empty |-> FALSE, day |-> 1, hour |-> 10, minute |-> 0,
                   second |-> 0, microsecond |-> 0]

(***************************************************************************)
(*                     Properties of the poll cycle                        *)
(***************************************************************************)
CycleCalculate(amount, publish_date_str) ==
    IF variant = "geyser"
    THEN GeyserCalculateAdjustedTime(amount, publish_date_str, config)
    ELSE BoostingCalculateAdjustedTime(amount, publish_date_str, config)

\* The publish time that holds after a calculation: the result, or the
\* publish time the calculation started from when the result is 'no change'.
Effective(result, publish_date_str) ==
    IF result.empty THEN IsoFormat(ParseUTC(publish_date_str)) ELSE result

\* C7: no compounding drift across poll cycles.  Whenever a cycle has
\* calculated a publish time for a donation total A from the episode it
\* fetched, whatever the earlier cycles rescheduled, that publish time is the
\* one calculated for A from the publish_date the episode had at start-up;
\* and when the fetched episode is already at that time, the result is
\* 'no change'.
C7_NoCompoundingDrift ==
    calculated =>
        LET fromFirst == Effective(CycleCalculate(donation_satoshis, first_publish_date),
                                   first_publish_date)
        IN  /\ Effective(new_time, publish_date) = fromFirst
            /\ (IsoFormat(ParseUTC(publish_date)) = fromFirst => new_time.empty)

\* The goal-reached test of the latest handler run.
GoalReachedTest ==
    IF variant = "geyser" THEN is_goal_reached(current_goals)
    ELSE boosting_is_goal_reached(donation_satoshis)

\* C10: goal-completion trigger.  After every handler run that computed a
\* new publish time, the reschedule request carries publish_now = true and
\* no publish_date if the goal-reached test held and the wall clock was at
\* or past the computed time, and otherwise carries publish_date = the
\* computed time and no publish_now.
C10_GoalCompletionTrigger ==
    (calculated /\ ~new_time.empty) =>
        IF GoalReachedTest /\ now >= Timestamp(new_time)
        THEN request = [sent |-> TRUE, publish_now |-> TRUE, publish_date |-> NoChange]
        ELSE request = [sent |-> TRUE, publish_now |-> FALSE, publish_date |-> new_time]

\* The goal is reached and the clock stands exactly at the computed time
\* 20:00: the episode is published at once.
C10_Witness ==
    /\ calculated
    /\ config = Cfg(1, 2, 2000, 2200)
    /\ donation_satoshis = 125
    /\ new_time = [empty |-> FALSE, day |-> 2, hour |-> 20, minute |-> 0,
                   second |-> 0, microsecond |-> 0]
    /\ GoalReachedTest
    /\ now = Timestamp(new_time)
    /\ request.publish_now

\* C11: goal-reached forces the final amount.  After every handler run that
\* issued publish_now, a donation update issued by that run records
\* final_goal, and a notification of that run was decided on final_goal.
C11_GoalReachedForcesFinalAmount ==
    request.publish_now =>
        /\ (donation_update.sent => donation_update.amount = final_goal)
        /\ (notification.sent => notification.donation_amount = final_goal)

\* The downstream effects of a handler run.
Downstream == <<request, notification, donation_update, db, episode>>

\* C12: downstream action only on change.  A check whose current text equals
\* the previous text creates no task and issues nothing, in the scrape
\* variant nothing is issued unless a task was created by a detected change,
\* and a check_for_changes whose wallet balance equals the stored donations
\* issues no reschedule request, no notification and no donation update.
C12_ActionOnlyOnChange ==
    [][ /\ (HtmlCheck /\ current_file' = previous_goals)
            => (tasks' = tasks /\ UNCHANGED Downstream)
        /\ (JsCheck /\ current_js_file' = previous_js_goals)
            => (tasks' = tasks /\ UNCHANGED Downstream)
        /\ (variant = "geyser" /\ Downstream' # Downstream) => tasks # << >>
        /\ (CheckForChanges /\ wallet_balance' = db.donations)
            => /\ request' = NoRequest
               /\ notification' = NoNotification
               /\ donation_update' = NoDonationUpdate
               /\ db' = db
               /\ episode' = episode ]_vars

\* A later check_for_changes found the balance 125 that is already stored.
C12_Witness ==
    /\ variant = "boosting"
    /\ check_count >= 2
    /\ wallet_balance = 125
    /\ db.donations = 125
    /\ ~calculated
    /\ request = NoRequest
    /\ donation_update = NoDonationUpdate

\* C13: first run.  A check that fetches a page while no previous snapshot
\* exists creates no task and issues nothing, whatever the page holds, and
\* the page becomes the previous snapshot.
C13_FirstRun ==
    [][ /\ (HtmlCheck /\ previous_goals = NoFile /\ current_file' \in Contents)
            => /\ tasks' = tasks
               /\ UNCHANGED Downstream
               /\ previous_goals' = current_file'
        /\ (JsCheck /\ previous_js_goals = NoFile /\ current_js_file' \in Contents)
            => /\ tasks' = tasks
               /\ UNCHANGED Downstream
               /\ previous_js_goals' = current_js_file' ]_vars

\* The first HTML check fetched the page with the completion marker.
C13_Witness ==
    /\ variant = "geyser"
    /\ check_count = 1
    /\ pc = "js"
    /\ current_file = Content(final_goal, 125, 0, TRUE)
    /\ previous_goals = current_file
    /\ previous_js_goals = NoFile
    /\ tasks = << >>
    /\ request = NoRequest

C15_AtMostOneAttemptPerChange == post_attempts.count <= 1

\* C16: no rollback on downstream failure.  A process_change whose POST
\* fails leaves the previous snapshots in place, and the text it processed
\* is one of them; a check_for_changes whose POST fails still issues the
\* database update with the new balance and the new publish_date, and a
\* successful update stores both.
C16_NoRollbackOnFailure ==
    [][ /\ (ProcessChange /\ response' = "error")
            => /\ UNCHANGED <<previous_goals, previous_js_goals>>
               /\ current_goals' \in {previous_goals', previous_js_goals'}
        /\ (CheckForChanges /\ response' = "error")
            => /\ donation_update' =
                    [sent |-> TRUE, amount |-> wallet_balance',
                     publish_date |-> StoredPublishDate(new_time')]
               /\ db' \in {db, [donations |-> wallet_balance',
                                publish_date |-> StoredPublishDate(new_time')]} ]_vars

\* The POST for balance 125 failed, the episode API still holds the first
\* publish_date, and the database holds the new amount and the new time.
C16_Witness ==
    /\ variant = "boosting"
    /\ response = "error"
    /\ wallet_balance = 125
    /\ episode.publish_date = first_publish_date
    /\ ~episode.published
    /\ db = [donations |-> 125, publish_date |-> StoredPublishDate(new_time)]
    /\ db.publish_date # StoredPublishDate(first_publish_date)

\* The donation_amount argument of the last reschedule call.
AmountPassed == IF request.publish_now THEN final_goal ELSE donation_satoshis

\* C17: notification threshold.  A notification is sent only when
\* notifications are enabled, the reschedule POST of that handler run
\* succeeded and the amount passed to the reschedule call is at least
\* notification_threshold.
C17_NotificationThreshold ==
    notification.sent =>
        /\ use_telegram
        /\ request.sent
        /\ response = "ok"
        /\ notification.donation_amount = AmountPassed
        /\ AmountPassed >= notification_threshold

\* A notification for the rescheduling after the total 125.
C17_Witness ==
    /\ notification.sent
    /\ notification.action = "Rescheduled"
    /\ donation_satoshis = 125
    /\ response = "ok"

\* A successful POST for the total 60, below the threshold, with
\* notifications enabled: nothing is sent.
C17_WitnessBelow ==
    /\ use_telegram
    /\ response = "ok"
    /\ donation_satoshis = 60
    /\ ~request.publish_now
    /\ ~notification.sent

(***************************************************************************)
(*                    Properties of the extractor                          *)
(***************************************************************************)
\* process_and_clean_text has run on the text.
Processed == extraction.stage \in {"processed", "extracted", "tested"}

\* The plausible numbers written in the text, in text order.
WrittenNumbers ==
    LET numerals == SelectSeq(extraction.text,
                        LAMBDA t : /\ t.kind \in {"plain", "grouped", "percent"}
                                   /\ 1 <= t.value
                                   /\ t.value <= MaxPlausible)
    IN  [i \in 1 .. Len(numerals) |-> numerals[i].value]

FirstPosition(numbers, n) ==
    CHOOSE i \in 1 .. Len(numbers) :
        numbers[i] = n /\ \A j \in 1 .. (i - 1) : numbers[j] # n

\* C18: extractor ordering heuristic.  For every text with at least two
\* distinct plausible numbers, process_and_clean_text yields goal = largest
\* and current = second largest when the two largest differ by 10% of the
\* larger or more, and otherwise those two values in the order of their
\* first occurrence in the text.
C18_OrderingHeuristic ==
    LET distinct == { WrittenNumbers[i] : i \in 1 .. Len(WrittenNumbers) }
        top == SortedReverse(distinct)
        first == IF FirstPosition(WrittenNumbers, top[1])
                      < FirstPosition(WrittenNumbers, top[2])
                 THEN << top[1], top[2] >> ELSE << top[2], top[1] >>
    IN  (Processed /\ Cardinality(distinct) >= 2) =>
            IF 10 * (top[1] - top[2]) >= top[1]
            THEN /\ extraction.content.goal = top[1]
                 /\ extraction.content.current = top[2]
            ELSE /\ extraction.content.goal = first[1]
                 /\ extraction.content.current = first[2]

\* C19: extractor single-value fallback.  For every text with exactly one
\* plausible number n, process_and_clean_text yields goal = final_goal and
\* current = n, and extract_donation_amount returns n for its result.
C19_SingleValueFallback ==
    (Processed /\ Len(WrittenNumbers) = 1) =>
        /\ extraction.content.goal = final_goal
        /\ extraction.content.current = WrittenNumbers[1]
        /\ extraction.stage \in {"extracted", "tested"}
            => extraction.amount = WrittenNumbers[1]

\* is_goal_reached has run, on the text or on the structured string.
Tested == extraction.stage \in {"tested text", "tested"}

\* The content holds "100%" or "Abgeschlossen" in some case.
ContainsMarker ==
    \E i \in 1 .. Len(extraction.content.text) :
        extraction.content.text[i] \in
            { Percent(100), Word("Abgeschlossen"), Word("ABGESCHLOSSEN") }

\* The content is empty or holds white space only.
EmptyOrWhitespace ==
    /\ extraction.content.goal = 0
    /\ extraction.content.current = 0
    /\ \A i \in 1 .. Len(extraction.content.text) :
        extraction.content.text[i] = Blank

\* C20: goal-reached test.  is_goal_reached(content) is true exactly when
\* the content holds a completion marker, in any case, or is empty or
\* white space only.
C20_GoalReachedTest ==
    Tested => (extraction.reached <=> (ContainsMarker \/ EmptyOrWhitespace))

\* is_goal_reached returned True for a text of white space.
C20_Witness ==
    /\ extraction.stage = "tested text"
    /\ extraction.text = << Blank, Blank >>
    /\ extraction.reached

\* is_goal_reached returned True for the upper-case marker in a structured
\* string with a current amount.
C20_WitnessMarker ==
    /\ extraction.stage = "tested"
    /\ extraction.content = Structured(final_goal, 5, << Word("ABGESCHLOSSEN"), Plain(5) >>)
    /\ extraction.reached

\* is_goal_reached returned False for "50%" beside a number.
C20_WitnessFalse ==
    /\ extraction.stage = "tested"
    /\ extraction.content = Structured(950, 50, << Percent(50), Plain(950) >>)
    /\ ~extraction.reached

QuarterHourPolicy ==
    /\ config.start_time % 25 = 0
    /\ config.earliest_time % 25 = 0

C22_SequentialCycles ==
    [][ /\ HtmlCheck => tasks = << >>
        /\ JsCheck => tasks = << >>
        /\ ProcessChange =>
            /\ Len(tasks) = 1
            /\ tasks' = << >>
            /\ current_goals' = Head(tasks)
            /\ UNCHANGED <<check_count, pc, previous_goals, previous_js_goals,
                           current_file, current_js_file>> ]_vars

\* The second cycle is over: both of its process_change tasks ran and
\* attempted a POST, and the third cycle is about to start.
C22_Witness ==
    /\ variant = "geyser"
    /\ pc = "html"
    /\ check_count = 2
    /\ tasks = << >>
    /\ post_attempts.count = 2

\* C23: bounded fetch retry.  A fetch call makes at most max_retries
\* attempts, returns True at its first successful attempt and makes no
\* attempt after it, returns False only after max_retries failed attempts,
\* and always returns; a check whose fetch returned False compares nothing,
\* replaces no snapshot, creates no task and does not stop the loop.
C23_BoundedFetchRetry ==
    /\ [](fetch.source \in {"html", "js"} =>
            /\ fetch.attempt <= fetch.max_retries
            /\ fetch.returned = "true" => fetch.attempt >= 1
            /\ fetch.returned = "false" => fetch.attempt = fetch.max_retries)
    /\ [][ /\ (fetch.returned = "running" /\ fetch'.returned = "true")
                => fetch'.attempt = fetch.attempt + 1
           /\ (fetch.returned = "running" /\ fetch'.returned = "false")
                => fetch'.attempt = fetch.attempt
           /\ (fetch.returned \in {"true", "false"} /\ fetch' # fetch)
                => (HtmlCheck \/ JsCheck)
           /\ ((HtmlCheck \/ JsCheck) /\ fetch.returned = "false")
                => /\ UNCHANGED <<previous_goals, previous_js_goals, tasks,
                                  current_file, current_js_file>>
                   /\ pc' # "stopped" ]_vars
    /\ (fetch.returned = "running") ~> (fetch.returned \in {"true", "false"})

\* fetch_html_content returned False after three failed attempts.
C23_Witness ==
    /\ fetch = [source |-> "html", attempt |-> 3, returned |-> "false",
                max_retries |-> 3]
    /\ pc = "html"

\* fetch_js_content returned True at its second attempt of three.
C23_WitnessSuccess ==
    /\ fetch = [source |-> "js", attempt |-> 2, returned |-> "true",
                max_retries |-> 3]
    /\ pc = "js"

\* C24: empty content never causes publication.  A process_change whose
\* content is empty, or yields no donation amount, issues no reschedule
\* request, neither publish_now nor publish_date, although is_goal_reached
\* holds for the empty content; the episode stays as it is.
C24_EmptyContentNeverPublishes ==
    [][ (ProcessChange /\ (Head(tasks).blank
                           \/ extract_donation_amount(Head(tasks)) = 0))
            => /\ request' = NoRequest
               /\ response' = "none"
               /\ episode' = episode ]_vars

\* The page text became empty after the total 60 had been seen;
\* process_change ran on the empty text, late in the evening, and issued
\* nothing.
C24_Witness ==
    /\ variant = "geyser"
    /\ current_goals = BlankContent
    /\ is_goal_reached(current_goals)
    /\ post_attempts = [amount |-> 0, count |-> 0]
    /\ db.donations = 60
    /\ now = ClockAt(2, 21, 30, 0)
    /\ request = NoRequest
    /\ ~episode.published

\* The observed donation total of the latest handler run.
ObservedTotal == post_attempts.amount

\* C25: monotone acceleration.  When a handler run posts a publish_date
\* for a donation total that is no smaller than the total of the handler
\* run before it, which posted a publish_date as well, the publish_date
\* posted now is no later than the one posted before, in both variants.
C25_MonotoneAcceleration ==
    [][ ( /\ request.sent /\ ~request.publish_now
          /\ request'.sent /\ ~request'.publish_now
          /\ ObservedTotal' >= ObservedTotal )
            => EpochSeconds(request'.publish_date)
                   <= EpochSeconds(request.publish_date) ]_vars

\* C26: wallet variant bookkeeping.  At the end of every cycle in which
\* check_for_changes observed a wallet balance different from the stored
\* donations, the stored donations equal the observed balance; and the
\* cycle that follows such a cycle with the same balance detects no change.
C26_WalletBookkeeping ==
    [][ CheckForChanges =>
            /\ calculated' => db'.donations = wallet_balance'
            /\ (calculated /\ wallet_balance' = wallet_balance) => ~calculated'
      ]_vars

\* The snapshot a check leaves: the page just written when it has content,
\* otherwise the snapshot as it was.
SnapshotAfter(file, previous) ==
    IF file \notin {NoFile, EmptyFile} THEN file ELSE previous

\* C27: snapshot invariant of the scrape variant.  After every check the
\* previous snapshot of the source (HTML, JavaScript) is the content of
\* the most recent successful non-empty fetch of that source: a fetch with
\* content becomes the snapshot, an empty page and a failed fetch leave the
\* snapshot as it was; a failed JavaScript fetch creates no task; and a
\* check creates a process_change task only when the content differs from
\* the snapshot, so the same content in the following cycle creates none.
C27_SnapshotInvariant ==
    [][ /\ HtmlCheck =>
            /\ previous_goals' = SnapshotAfter(current_file', previous_goals)
            /\ Len(tasks') <= Len(tasks) + 1
            /\ tasks' # tasks =>
                   /\ previous_goals' # previous_goals
                   /\ Head(tasks') = previous_goals'
        /\ JsCheck =>
            /\ previous_js_goals'
                   = SnapshotAfter(current_js_file', previous_js_goals)
            /\ js_failures' > js_failures =>
                   /\ previous_js_goals' = previous_js_goals
                   /\ tasks' = tasks
            /\ tasks' # tasks =>
                   /\ previous_js_goals' # previous_js_goals
                   /\ Head(tasks') = previous_js_goals'
      ]_vars

\* Third cycle: the HTML page came back empty and the JavaScript fetch
\* failed; both snapshots are the contents fetched before, no task waits.
C27_Witness ==
    /\ variant = "geyser"
    /\ check_count = 3
    /\ pc = "sleep"
    /\ current_file = EmptyFile
    /\ previous_goals = Content(final_goal, 125, 0, TRUE)
    /\ js_failures = 1
    /\ previous_js_goals = Content(final_goal, 60, 0, FALSE)
    /\ current_js_file = previous_js_goals
    /\ tasks = << >>

\* C28: JavaScript fallback.  The JavaScript check is attempted only while
\* use_javascript holds; a check that fetched a new page resets the
\* failure counter to 0, any other check resets it or counts one failure
\* more; use_javascript is false exactly when the counter of consecutive
\* failed fetches has reached 3, and is never set again; with the check
\* switched off, the HTML check of a cycle is followed by the sleep and
\* the sleep by the next HTML check.
C28_JavaScriptFallback ==
    /\ [](use_javascript <=> js_failures < max_js_failures)
    /\ [](js_failures <= check_count)
    /\ [][ /\ JsCheck =>
                /\ use_javascript
                /\ js_failures' \in {0, js_failures + 1}
                /\ current_js_file' # current_js_file => js_failures' = 0
                /\ js_failures' = 0 => use_javascript'
           /\ ~use_javascript => ~use_javascript'
           /\ (HtmlCheck /\ ~use_javascript) => pc' = "sleep"
           /\ (Sleep /\ ~use_javascript) => pc' = "html"
         ]_vars

\* The first three JavaScript fetches failed and the check was switched
\* off; the fourth cycle fetched the HTML page, found a new total and went
\* to sleep without a JavaScript check.
C28_Witness ==
    /\ variant = "geyser"
    /\ ~use_javascript
    /\ js_failures = max_js_failures
    /\ check_count = max_js_failures + 1
    /\ pc = "sleep"
    /\ previous_js_goals = NoFile
    /\ previous_goals = Content(final_goal, 125, 0, TRUE)
    /\ current_goals = previous_goals
    /\ tasks = << >>

\* C29: connection resources of the wallet variant.  Over any number of
\* poll cycles at most one PostgreSQL connection pool created by
\* DatabaseManager is open at a time.
C29_AtMostOnePool == pools <= 1

\* The rows of the episode of the latest donation update.
UpdatedRows == get_episode(bot.table, bot.updated.episode_id)

\* A step of an episode synchronisation.
SyncStep == SyncPlannedEpisodes \/ GetEpisode \/ InsertOrUpdateEpisode

\* C30 (as claimed): episode sync preserves donations.  For any
\* interleaving of donation updates and synchronisations the table holds
\* at most one row per episode_id, a sync step leaves the donations of
\* every row unchanged, and after a donation update the episode reads back
\* the updated amount, whatever syncs follow.
C30_SyncPreservesDonations ==
    /\ [](\A r1, r2 \in bot.table : r1.episode_id = r2.episode_id => r1 = r2)
    /\ [][ SyncStep =>
             \A r \in bot.table : \E r2 \in bot.table' :
                 r2.episode_id = r.episode_id /\ r2.donations = r.donations ]_vars
    /\ [](bot.updated.sent => \A r \in UpdatedRows : r.donations = bot.updated.amount)

\* C30 (amended): ... after a donation update for an episode that had a
\* row, the episode reads back the updated amount, whatever syncs follow.
C30_SyncPreservesDonationsOfExistingEpisodes ==
    /\ [](\A r1, r2 \in bot.table : r1.episode_id = r2.episode_id => r1 = r2)
    /\ [][ SyncStep =>
             \A r \in bot.table : \E r2 \in bot.table' :
                 r2.episode_id = r.episode_id /\ r2.donations = r.donations ]_vars
    /\ [](bot.updated.existed =>
              /\ UpdatedRows # {}
              /\ \A r \in UpdatedRows : r.donations = bot.updated.amount)

\* The donation update of e1 to 125 was the first request, the sync that
\* wrote version 2 of the episode the second; the row holds 125.
C30_Witness ==
    /\ bot.table = {Row("e1", 2, 125)}
    /\ bot.updated = [sent |-> TRUE, episode_id |-> "e1", amount |-> 125,
                      existed |-> TRUE]
    /\ bot.requests = 2
    /\ bot.last = "sync"
    /\ bot.api.pc = "idle"
    /\ bot.main.pc = "polling"

====
